---- MODULE Spec2Model ----
(***************************************************************************)
(* A model of the pop3-mail-client crate: the connection builder, the      *)
(* session (Pop3Client) with its command methods and destructor, the       *)
(* response reader (reader.rs) and the response parsers (responses.rs).    *)
(*                                                                         *)
(* Text is modelled as a sequence of one-character strings, a byte stream  *)
(* as a sequence of such characters (the model's bytes are ASCII, plus one *)
(* NUL byte and one byte that is not valid UTF-8).                         *)
(***************************************************************************)
EXTENDS Integers, Sequences, FiniteSets, TLC

VARIABLES
    builder,     \* the Pop3ClientBuilder value: username, password, type_state
    calls,       \* history: the builder methods called so far, in order
    client,      \* the Pop3Client value: "none", "live", "unwinding" (a method
                 \* panicked), "stuck" (a method never returns) or "dropped"
    auth,        \* history: the protocol state of the server side of the session
    pending,     \* bytes the server sent that no read has taken yet
    last,        \* history: the last method call, its I/O events and outcome
    prevErr,     \* history: the call before `last` failed on a server -ERR reply
    ncmds,       \* number of command methods called on the session
    quits,       \* history: number of write calls that offered QUIT CR LF
    rIn,         \* reader harness: the bytes of the byte source
    rOut,        \* reader harness: what the reader returned for rIn
    pIn,         \* parser harness: the payload handed to a parser of responses.rs
    pOut,        \* parser harness: the parser applied and what it returned
    mIn,         \* method harness: the multi-line reply the server gives
    mOut         \* method harness: the method called on mIn and its outcome

vars == <<builder, calls, client, auth, pending, last, prevErr, ncmds, quits,
          rIn, rOut, pIn, pOut, mIn, mOut>>

-----------------------------------------------------------------------------
(* Bounds of the model. *)

\* the reader harness cuts a byte source into at most MaxCuts + 1 read chunks
MaxCuts == 1
\* the reader harness draws texts of at most MaxPieces pieces
MaxPieces == 2
\* a session runs at most MaxCmds command methods
MaxCmds == 2

-----------------------------------------------------------------------------
(* Characters and constants of reader.rs. *)

CR == "\r"
LF == "\n"
SP == " "
TAB == "\t"
\* the byte 0 (reader.rs ZERO)
ZERO == "NUL"
\* reader.rs NEWLINE
NEWLINE == LF
\* reader.rs HYPHEN
HYPHEN == "-"
\* a byte that is no valid UTF-8, and what from_utf8_lossy makes of it
BADBYTE == "x80"
REPLACEMENT == "uFFFD"

OK_RESPONSE_START == <<"+", "O", "K">>
ERR_RESPONSE_START == <<"-", "E", "R", "R">>
PERIOD_SURROUNDED_BY_NEWLINE == <<LF, ".", LF>>
PERIOD_SURROUNDED_BY_CARRIAGE_RETURN_AND_NEWLINE == <<CR, LF, ".", CR, LF>>
CRLF == <<CR, LF>>

\* the text of format!("unexpected response: {response}") before the response
UNEXPECTED == <<"u","n","e","x","p","e","c","t","e","d",SP,
                "r","e","s","p","o","n","s","e",":",SP>>

-----------------------------------------------------------------------------
(* str and Vec<u8> operations of the standard library, as the code uses them. *)

\* str::starts_with
StartsWith(s, p) == Len(s) >= Len(p) /\ SubSeq(s, 1, Len(p)) = p

\* str::replace(pat, to): every non-overlapping match, left to right
RECURSIVE Replace(_, _, _)
Replace(s, pat, to) ==
    IF Len(s) < Len(pat) THEN s
    ELSE IF SubSeq(s, 1, Len(pat)) = pat
         THEN to \o Replace(SubSeq(s, Len(pat) + 1, Len(s)), pat, to)
         ELSE <<Head(s)>> \o Replace(Tail(s), pat, to)

\* char::is_whitespace on the model's characters
IsWhite(c) == c \in {SP, TAB, CR, LF}

RECURSIVE TrimStart(_)
TrimStart(s) == IF s # <<>> /\ IsWhite(Head(s)) THEN TrimStart(Tail(s)) ELSE s

RECURSIVE TrimEnd(_)
TrimEnd(s) ==
    IF s # <<>> /\ IsWhite(s[Len(s)]) THEN TrimEnd(SubSeq(s, 1, Len(s) - 1)) ELSE s

\* str::trim
Trim(s) == TrimEnd(TrimStart(s))

\* Vec::into_iter().filter(|v| v != &ZERO).collect()
FilterZero(buf) == SelectSeq(buf, LAMBDA b : b # ZERO)

\* String::from_utf8_lossy(..).into_owned()
from_utf8_lossy(buf) == [i \in 1..Len(buf) |-> IF buf[i] = BADBYTE THEN REPLACEMENT ELSE buf[i]]

\* the concatenation of a sequence of chunks
RECURSIVE Flatten(_)
Flatten(chunks) == IF chunks = <<>> THEN <<>> ELSE Head(chunks) \o Flatten(Tail(chunks))

-----------------------------------------------------------------------------
(* The byte source: the chunks successive read calls return, and what a    *)
(* read does once they are used up: "block" (nothing more arrives),        *)
(* "eof" (read returns Ok(0)) or "fault" (read returns Err). Every chunk   *)
(* of the model is shorter than READ_BUFFER_SIZE (512) and                  *)
(* READ_ALL_BUFFER_SIZE (2048), so one read call takes a chunk whole.       *)

Tails == {"block", "eof", "fault"}

\* the sets of at most k cut positions inside a stream of n bytes
RECURSIVE CutsUpTo(_, _)
CutsUpTo(n, k) ==
    IF k = 0 THEN {{}}
    ELSE LET fewer == CutsUpTo(n, k - 1)
         IN fewer \cup {c \cup {a} : c \in fewer, a \in 1..(n - 1)}

CutSets(n) == CutsUpTo(n, MaxCuts)

\* bytes s split after the positions in cuts, as the list of read chunks
RECURSIVE ChunksFrom(_, _, _)
ChunksFrom(s, cuts, from) ==
    IF from > Len(s) THEN <<>>
    ELSE LET after == {c \in cuts : c >= from}
             to == IF after = {} THEN Len(s)
                   ELSE CHOOSE c \in after : \A d \in after : c <= d
         IN <<SubSeq(s, from, to)>> \o ChunksFrom(s, cuts, to + 1)

Chunks(s, cuts) == ChunksFrom(s, cuts, 1)

-----------------------------------------------------------------------------
(* reader.rs *)

\* what a reader loop ends in when it asks for bytes and the chunks are used up:
\* read blocks for ever, the loop spins on Ok(0), or expect() panics on Err
Exhausted(buf, tail) ==
    [st |-> CASE tail = "block" -> "block"
              [] tail = "eof" -> "spin"
              [] OTHER -> "panic",
     text |-> buf, rest |-> <<>>]

\* fn read: the loop at reader.rs:63-70
RECURSIVE read(_, _, _)
read(line_buffer, chunks, tail) ==
    IF Len(line_buffer) < 2 \/ line_buffer[Len(line_buffer)] # NEWLINE
    THEN IF chunks = <<>> THEN Exhausted(line_buffer, tail)
         ELSE read(FilterZero(line_buffer \o Head(chunks)), Tail(chunks), tail)
    ELSE [st |-> "ret", text |-> from_utf8_lossy(line_buffer), rest |-> Flatten(chunks)]

\* fn is_err
is_err(line_buffer) == line_buffer[1] = HYPHEN

\* fn ends_with_sole_period_and_newline, for a buffer of at least 5 bytes
ends_with_sole_period_and_newline(line_buffer) ==
    LET n == Len(line_buffer)
    IN \/ SubSeq(line_buffer, n - 2, n) = PERIOD_SURROUNDED_BY_NEWLINE
       \/ SubSeq(line_buffer, n - 4, n) = PERIOD_SURROUNDED_BY_CARRIAGE_RETURN_AND_NEWLINE

\* fn read_all: the loop at reader.rs:40-46. With 3 or 4 bytes buffered the loop
\* test calls ends_with_sole_period_and_newline, whose len() - 5 is below zero:
\* the subtraction (debug build) or the slice (release build) panics.
RECURSIVE read_all(_, _, _)
read_all(line_buffer, chunks, tail) ==
    IF Len(line_buffer) >= 3 /\ Len(line_buffer) < 5
    THEN [st |-> "panic", text |-> line_buffer, rest |-> Flatten(chunks)]
    ELSE IF \/ Len(line_buffer) < 3
            \/ (~ends_with_sole_period_and_newline(line_buffer) /\ ~is_err(line_buffer))
         THEN IF chunks = <<>> THEN Exhausted(line_buffer, tail)
              ELSE read_all(FilterZero(line_buffer \o Head(chunks)), Tail(chunks), tail)
         ELSE [st |-> "ret", text |-> from_utf8_lossy(line_buffer), rest |-> Flatten(chunks)]

\* Result<String, String>
Ok(v) == [ok |-> TRUE, val |-> v]
Err(v) == [ok |-> FALSE, val |-> v]

\* translate_string_response with the reply of another prefix trimmed before it
\* is put in the message
translate_string_response_trimmed(response) ==
    IF StartsWith(response, OK_RESPONSE_START)
    THEN Ok(Trim(Replace(response, OK_RESPONSE_START, <<>>)))
    ELSE IF StartsWith(response, ERR_RESPONSE_START)
         THEN Err(Trim(Replace(Replace(response, ERR_RESPONSE_START, <<>>), CRLF, <<>>)))
         ELSE Err(UNEXPECTED \o Trim(response))

\* fn translate_string_response
translate_string_response(response) ==
    IF StartsWith(response, OK_RESPONSE_START)
    THEN Ok(Trim(Replace(response, OK_RESPONSE_START, <<>>)))
    ELSE IF StartsWith(response, ERR_RESPONSE_START)
         THEN Err(Trim(Replace(Replace(response, ERR_RESPONSE_START, <<>>), CRLF, <<>>)))
         ELSE Err(UNEXPECTED \o response)

\* a reader call's outcome: how it ended, its Result when it returned, and
\* the bytes it left in the stream
Framed(r) ==
    [st |-> r.st,
     res |-> IF r.st = "ret" THEN translate_string_response(r.text) ELSE Err(<<>>),
     rest |-> r.rest]

\* pub fn read_response
read_response(chunks, tail) == Framed(read(<<>>, chunks, tail))

\* pub fn read_multi_response
read_multi_response(chunks, tail) == Framed(read_all(<<>>, chunks, tail))

-----------------------------------------------------------------------------
(* Integers as text: format!("{message_id}") and str::parse::<i32>(). *)

Digits == <<"0", "1", "2", "3", "4", "5", "6", "7", "8", "9">>

IsDigit(c) == \E d \in 1..10 : Digits[d] = c

DigitVal(c) == (CHOOSE d \in 1..10 : Digits[d] = c) - 1

\* i32::MAX, and the decimal digits of i32::MAX and of -i32::MIN
I32_MAX == 2147483647
I32_MIN == -I32_MAX - 1
MAX_DIGITS == <<"2", "1", "4", "7", "4", "8", "3", "6", "4", "7">>
MIN_DIGITS == <<"2", "1", "4", "7", "4", "8", "3", "6", "4", "8">>

RECURSIVE fmt_nat(_)
fmt_nat(n) ==
    IF n < 10 THEN <<Digits[n + 1]>> ELSE fmt_nat(n \div 10) \o <<Digits[(n % 10) + 1]>>

\* Display for i32
fmt_i32(n) ==
    IF n = I32_MIN THEN <<"-">> \o MIN_DIGITS
    ELSE IF n < 0 THEN <<"-">> \o fmt_nat(-n) ELSE fmt_nat(n)

RECURSIVE StripZeros(_)
StripZeros(ds) == IF Len(ds) > 1 /\ Head(ds) = "0" THEN StripZeros(Tail(ds)) ELSE ds

\* whether the digits ds (no leading zero) stand for a number above those of lim
Above(ds, lim) ==
    \/ Len(ds) > Len(lim)
    \/ /\ Len(ds) = Len(lim)
       /\ \E i \in 1..Len(ds) :
            /\ DigitVal(ds[i]) > DigitVal(lim[i])
            /\ \A j \in 1..(i - 1) : ds[j] = lim[j]

RECURSIVE nat_of(_)
nat_of(ds) ==
    IF ds = <<>> THEN 0
    ELSE 10 * nat_of(SubSeq(ds, 1, Len(ds) - 1)) + DigitVal(ds[Len(ds)])

\* the ParseIntError texts
EMPTY_STRING == <<"cannot parse integer from empty string">>
INVALID_DIGIT == <<"invalid digit found in string">>
POS_OVERFLOW == <<"number too large to fit in target type">>
NEG_OVERFLOW == <<"number too small to fit in target type">>

\* <i32 as FromStr>::from_str: an optional sign, then one or more digits
parse_i32(s) ==
    IF s = <<>> THEN Err(EMPTY_STRING)
    ELSE LET signed == Head(s) \in {"+", "-"}
             neg == Head(s) = "-"
             ds == IF signed THEN Tail(s) ELSE s
         IN IF ds = <<>> \/ \E i \in 1..Len(ds) : ~IsDigit(ds[i])
            THEN Err(INVALID_DIGIT)
            ELSE LET sig == StripZeros(ds)
                 IN IF ~neg /\ Above(sig, MAX_DIGITS) THEN Err(POS_OVERFLOW)
                    ELSE IF neg /\ Above(sig, MIN_DIGITS) THEN Err(NEG_OVERFLOW)
                    ELSE IF neg /\ sig = MIN_DIGITS THEN Ok(I32_MIN)
                    ELSE Ok(IF neg THEN -nat_of(sig) ELSE nat_of(sig))

\* str::split on one character: the pieces between the separators, empty ones kept
RECURSIVE Split(_, _)
Split(s, sep) ==
    IF \A i \in 1..Len(s) : s[i] # sep THEN <<s>>
    ELSE LET k == CHOOSE i \in 1..Len(s) : s[i] = sep /\ \A j \in 1..(i - 1) : s[j] # sep
         IN <<SubSeq(s, 1, k - 1)>> \o Split(SubSeq(s, k + 1, Len(s)), sep)

-----------------------------------------------------------------------------
(* errors.rs: an error value is its type and its message. *)

Error(kind, message) == [kind |-> kind, message |-> message]

\* impl From<ParseIntError> for StatError / ListError / UIDLError
STAT_PARSE == <<"could not parse stat response as numbers: ">>
LIST_PARSE == <<"could not parse list response numbers: ">>
UIDL_PARSE == <<"could not parse UIDL message id as a number: ">>

-----------------------------------------------------------------------------
(* responses.rs *)

\* StatResponse::try_from taking the first two of two or more pieces
StatResponse_try_from_lenient(value) ==
    LET pieces == Split(value, SP)
    IN IF Len(pieces) >= 2
       THEN LET a == parse_i32(pieces[1])
                b == parse_i32(pieces[2])
            IN IF ~a.ok THEN Err(Error("StatError", STAT_PARSE \o a.val))
               ELSE IF ~b.ok THEN Err(Error("StatError", STAT_PARSE \o b.val))
               ELSE Ok([number_of_message |-> a.val, total_size |-> b.val])
       ELSE Err(Error("StatError", <<"invalid stat response: ">> \o value))

\* impl TryFrom<String> for StatResponse
StatResponse_try_from(value) ==
    LET pieces == Split(value, SP)
    IN IF Len(pieces) = 2
       THEN LET a == parse_i32(pieces[1])
                b == parse_i32(pieces[2])
            IN IF ~a.ok THEN Err(Error("StatError", STAT_PARSE \o a.val))
               ELSE IF ~b.ok THEN Err(Error("StatError", STAT_PARSE \o b.val))
               ELSE Ok([number_of_message |-> a.val, total_size |-> b.val])
       ELSE Err(Error("StatError", <<"invalid stat response: ">> \o value))

\* impl TryFrom<String> for ItemResponse
ItemResponse_try_from(value) ==
    LET pieces == Split(value, SP)
    IN IF Len(pieces) = 2
       THEN LET a == parse_i32(pieces[1])
                b == parse_i32(pieces[2])
            IN IF ~a.ok THEN Err(Error("ListError", LIST_PARSE \o a.val))
               ELSE IF ~b.ok THEN Err(Error("ListError", LIST_PARSE \o b.val))
               ELSE Ok([message_id |-> a.val, size |-> b.val])
       ELSE Err(Error("ListError", <<"invalid list item: ">> \o value))

\* impl TryFrom<String> for UIDLItem
UIDLItem_try_from(value) ==
    LET pieces == Split(value, SP)
    IN IF Len(pieces) = 2
       THEN LET a == parse_i32(pieces[1])
            IN IF ~a.ok THEN Err(Error("UIDLError", UIDL_PARSE \o a.val))
               ELSE Ok([message_id |-> a.val, unique_id |-> pieces[2]])
       ELSE Err(Error("UIDLError", <<"invalid UIDL item: ">> \o value))

\* the filter dropping every line that holds a period: !v.contains(".")
ItemLines_contains(value) ==
    LET lines == Split(value, LF)
        stripped == [i \in 1..Len(lines) |-> Replace(lines[i], <<CR>>, <<>>)]
    IN SelectSeq(stripped, LAMBDA v : v # <<>> /\ \A i \in 1..Len(v) : v[i] # ".")

\* value.split('\n').map(|v| v.replace('\r', "")).filter(|v| !v.is_empty() && v != ".")
ItemLines(value) ==
    LET lines == Split(value, LF)
        stripped == [i \in 1..Len(lines) |-> Replace(lines[i], <<CR>>, <<>>)]
    IN SelectSeq(stripped, LAMBDA v : v # <<>> /\ v # <<".">>)

\* .collect::<Result<Vec<_>, _>>(): the items, or the first error
Collect(results) ==
    IF \E i \in 1..Len(results) : ~results[i].ok
    THEN results[CHOOSE i \in 1..Len(results) :
                    ~results[i].ok /\ \A j \in 1..(i - 1) : results[j].ok]
    ELSE Ok([i \in 1..Len(results) |-> results[i].val])

\* impl TryFrom<String> for ListResponse
ListResponse_try_from(value) ==
    LET lines == ItemLines(value)
        r == Collect([i \in 1..Len(lines) |-> ItemResponse_try_from(lines[i])])
    IN IF r.ok THEN Ok([messages |-> r.val]) ELSE r

\* impl TryFrom<String> for UIDLResponse
UIDLResponse_try_from(value) ==
    LET lines == ItemLines(value)
        r == Collect([i \in 1..Len(lines) |-> UIDLItem_try_from(lines[i])])
    IN IF r.ok THEN Ok([messages |-> r.val]) ELSE r

-----------------------------------------------------------------------------
(* lib.rs: the stream of a session. *)

\* Option<String>
None == [some |-> FALSE, val |-> <<>>]
Some(v) == [some |-> TRUE, val |-> v]

STAT == <<"S", "T", "A", "T">>
LIST == <<"L", "I", "S", "T">>
RETR == <<"R", "E", "T", "R">>
RSET == <<"R", "S", "E", "T">>
DELE == <<"D", "E", "L", "E">>
NOOP == <<"N", "O", "O", "P">>
UIDL == <<"U", "I", "D", "L">>
TOP == <<"T", "O", "P">>
QUIT == <<"Q", "U", "I", "T">>
USER == <<"U", "S", "E", "R">>
PASS == <<"P", "A", "S", "S">>

\* err.to_string() of an io::Error
IO_ERROR == <<"io error">>

\* what one call of Write::write does with the bytes offered: it takes them all,
\* takes the first half or the first byte only (and returns that count), or fails
WriteOutcomes == {"all", "half", "one", "fault"}

Accepted(line, w) ==
    CASE w = "all" -> Len(line)
      [] w = "half" -> Len(line) \div 2
      [] w = "one" -> 1
      [] OTHER -> 0

\* fn invoke: one write call offering the command and CR LF
invoke(command, w) ==
    LET line == command \o CRLF
    IN [res |-> IF w = "fault" THEN Err(IO_ERROR) ELSE Ok(Accepted(line, w)),
        line |-> line,
        sent |-> SubSeq(line, 1, Accepted(line, w))]

\* the I/O events a method performs, in order
WriteEv(i) ==
    [op |-> "write", line |-> i.line, sent |-> i.sent, kind |-> "none",
     st |-> IF i.res.ok THEN "ret" ELSE "fault", res |-> Err(<<>>)]

ReadEv(kind, r) ==
    [op |-> "read", line |-> <<>>, sent |-> <<>>, kind |-> kind, st |-> r.st, res |-> r.res]

\* Pop3Client::read_response / Pop3Client::read_multi_response on the bytes the
\* stream holds, delivered in the chunks the cuts give
client_read(kind, stream, cuts, tail) ==
    IF kind = "single" THEN read_response(Chunks(stream, cuts), tail)
    ELSE read_multi_response(Chunks(stream, cuts), tail)

\* the server answers a command once its whole line has arrived
Served(i, reply) == IF i.res.ok /\ i.sent = i.line THEN reply ELSE <<>>

\* the replies the server may give to a command read with the given framing
SingleReplies ==
    { <<"+", "O", "K", SP, "1", SP, "2", CR, LF>>,
      <<"-", "E", "R", "R", SP, "x", CR, LF>> }

MultiReplies ==
    { <<"+", "O", "K", CR, LF, "1", SP, "2", CR, LF, ".", CR, LF>>,
      <<"-", "E", "R", "R", SP, "x", CR, LF>> }

Replies(kind) == IF kind = "single" THEN SingleReplies ELSE MultiReplies

\* the session's chunking: the bytes a read call finds arrive whole or in two
\* chunks, cut at any place
SessionCuts(n) == CutsUpTo(n, 1)

\* the tails that make a difference to a read of the stream: the tail shows
\* only when the reader asks for more than the chunks hold
TailsFor(kind, stream, cuts) ==
    IF client_read(kind, stream, cuts, "block").st = "block" THEN Tails ELSE {"block"}

\* the inputs of one read: the reply, how the stream is cut into chunks, the tail
ReadInputs(kind, pend) ==
    UNION { UNION { { [w |-> "all", reply |-> rp, cuts |-> c, tail |-> t] :
                        t \in TailsFor(kind, pend \o rp, c) } :
                    c \in SessionCuts(Len(pend) + Len(rp)) } :
            rp \in Replies(kind) }

\* the inputs of one command: what the write call does, then those of the read
\* (the server does not answer a line that did not arrive whole)
Inputs(kind, pend) ==
    ReadInputs(kind, pend)
    \cup UNION { { [w |-> w, reply |-> <<>>, cuts |-> c, tail |-> t] :
                     w \in {"half", "one"}, t \in TailsFor(kind, pend, c) } :
                 c \in SessionCuts(Len(pend)) }
    \cup { [w |-> "fault", reply |-> <<>>, cuts |-> {}, tail |-> "block"] }

\* the exchange with the Result of invoke thrown away: the reply is read
\* whatever the write call returned
Exchange_unchecked(command, kind, x, pend) ==
    LET i == invoke(command, x.w)
        r == client_read(kind, pend \o Served(i, x.reply), x.cuts, x.tail)
    IN [events |-> <<WriteEv(i), ReadEv(kind, r)>>, st |-> r.st, res |-> r.res,
        rest |-> r.rest, replies |-> <<Served(i, x.reply)>>]

\* self.invoke(command)? followed by self.read_response() or
\* self.read_multi_response(): the events, how the read ended, its Result,
\* the bytes left in the stream and the reply the server gave
Exchange(command, kind, x, pend) ==
    LET i == invoke(command, x.w)
    IN IF ~i.res.ok
       THEN [events |-> <<WriteEv(i)>>, st |-> "ret", res |-> i.res, rest |-> pend,
             replies |-> <<>>]
       ELSE LET r == client_read(kind, pend \o Served(i, x.reply), x.cuts, x.tail)
            IN [events |-> <<WriteEv(i), ReadEv(kind, r)>>, st |-> r.st, res |-> r.res,
                rest |-> r.rest, replies |-> <<Served(i, x.reply)>>]

\* a method's outcome from its exchange e and the value it builds from the reply;
\* the ? operator turns the String of a failed write or read into the error type
Outcome(e, kind, value) ==
    [events |-> e.events, st |-> e.st, rest |-> e.rest, replies |-> e.replies,
     res |-> IF e.st # "ret" THEN Err(Error("unwound", <<>>))
             ELSE IF ~e.res.ok THEN Err(Error(kind, e.res.val))
             ELSE value]

-----------------------------------------------------------------------------
(* lib.rs: the command methods of Pop3Client. Each takes the inputs x of its *)
(* exchange and the bytes pend the stream holds when it is called.           *)

\* the arguments the model calls the methods with
Ids == {-1, 2}
LineCounts == {1}
LastCounts == {-1, 0, 1}

\* pub fn stat
stat(x, pend) ==
    LET e == Exchange(STAT, "single", x, pend)
    IN Outcome(e, "StatError", StatResponse_try_from(e.res.val))

\* pub fn list
list(x, pend) ==
    LET e == Exchange(LIST, "multi", x, pend)
    IN Outcome(e, "ListError", ListResponse_try_from(e.res.val))

\* list_id with the reader of a multi-line reply in place of read_response
list_id_multi(message_id, x, pend) ==
    LET e == Exchange(LIST \o <<SP>> \o fmt_i32(message_id), "multi", x, pend)
    IN Outcome(e, "ListError", ItemResponse_try_from(e.res.val))

\* pub fn list_id
list_id(message_id, x, pend) ==
    LET e == Exchange(LIST \o <<SP>> \o fmt_i32(message_id), "single", x, pend)
    IN Outcome(e, "ListError", ItemResponse_try_from(e.res.val))

\* .into_iter().rev().take(number_of_messages as usize).rev().collect():
\* a negative i32 cast to usize is above every Vec length, so take keeps all
LastItems(messages, number_of_messages) ==
    IF number_of_messages < 0 \/ number_of_messages >= Len(messages) THEN messages
    ELSE SubSeq(messages, Len(messages) - number_of_messages + 1, Len(messages))

\* pub fn list_last
list_last(number_of_messages, x, pend) ==
    LET e == Exchange(LIST, "multi", x, pend)
        response == ListResponse_try_from(e.res.val)
    IN Outcome(e, "ListError",
               IF ~response.ok THEN response
               ELSE Ok([messages |-> LastItems(response.val.messages,
                                               number_of_messages)]))

\* pub fn retrieve_as_string
retrieve_as_string(message_id, x, pend) ==
    LET e == Exchange(RETR \o <<SP>> \o fmt_i32(message_id), "multi", x, pend)
    IN Outcome(e, "RetrieveError", Ok([message_id |-> message_id, data |-> e.res.val]))

\* pub fn retrieve_last_as_string, up to the ? after self.list(): the list call
\* with impl From<ListError> for RetrieveError applied to its error
retrieve_last_list(x, pend) ==
    LET l == list(x, pend)
    IN IF l.st = "ret" /\ ~l.res.ok
       THEN [l EXCEPT !.res = Err(Error("RetrieveError", l.res.val.message))]
       ELSE l

\* retrieve_last_as_string taking the first message of the list: messages.first()
retrieve_last_as_string_first(l, x) ==
    IF l.st # "ret" \/ ~l.res.ok THEN l
    ELSE IF l.res.val.messages = <<>>
    THEN [l EXCEPT !.res = Err(Error("RetrieveError",
                                     <<"no messages available">>))]
    ELSE LET last_message == l.res.val.messages[1]
             e == Exchange(RETR \o <<SP>> \o fmt_i32(last_message.message_id),
                           "multi", x, l.rest)
             o == Outcome(e, "RetrieveError", Ok([message_id |-> -1, data |-> e.res.val]))
         IN [o EXCEPT !.events = l.events \o @, !.replies = l.replies \o @]

\* pub fn retrieve_last_as_string, from last.messages.last() on: l is the
\* outcome of the list call, x the inputs of the RETR exchange
retrieve_last_as_string(l, x) ==
    IF l.st # "ret" \/ ~l.res.ok THEN l
    ELSE IF l.res.val.messages = <<>>
    THEN [l EXCEPT !.res = Err(Error("RetrieveError",
                                     <<"no messages available">>))]
    ELSE LET last_message == l.res.val.messages[Len(l.res.val.messages)]
             e == Exchange(RETR \o <<SP>> \o fmt_i32(last_message.message_id),
                           "multi", x, l.rest)
             o == Outcome(e, "RetrieveError", Ok([message_id |-> -1, data |-> e.res.val]))
         IN [o EXCEPT !.events = l.events \o @, !.replies = l.replies \o @]

\* pub fn reset
reset(x, pend) ==
    Outcome(Exchange(RSET, "single", x, pend), "ResetError", Ok(<<>>))

\* pub fn delete
delete(message_id, x, pend) ==
    Outcome(Exchange(DELE \o <<SP>> \o fmt_i32(message_id), "single", x, pend),
            "DeleteError", Ok(<<>>))

\* pub fn noop
noop(x, pend) ==
    Outcome(Exchange(NOOP, "single", x, pend), "NoopError", Ok(<<>>))

\* pub fn uidl
uidl(x, pend) ==
    LET e == Exchange(UIDL, "multi", x, pend)
    IN Outcome(e, "UIDLError", UIDLResponse_try_from(e.res.val))

\* pub fn uidl_with_id
uidl_with_id(message_id, x, pend) ==
    LET e == Exchange(UIDL \o <<SP>> \o fmt_i32(message_id), "single", x, pend)
    IN Outcome(e, "UIDLError", UIDLItem_try_from(e.res.val))

\* pub fn top
top(message_id, number_of_lines, x, pend) ==
    LET e == Exchange(TOP \o <<SP>> \o fmt_i32(message_id) \o <<SP>>
                      \o fmt_i32(number_of_lines), "multi", x, pend)
    IN Outcome(e, "TopError",
               Ok([message_id |-> message_id, number_of_lines |-> number_of_lines,
                   data |-> e.res.val]))

\* impl Drop for Pop3Client: let _ = self.invoke("QUIT"), the result thrown away
drop(w) ==
    [events |-> <<WriteEv(invoke(QUIT, w))>>, st |-> "ret", res |-> Ok(<<>>),
     rest |-> <<>>, replies |-> <<>>]

-----------------------------------------------------------------------------
(* lib.rs: the connection builder. *)

CREDS_USERNAME == "Pop3ClientBuilderCredsUsername"
CREDS_PASSWORD == "Pop3ClientBuilderCredsPassword"
CONNECT == "Pop3ClientBuilderConnect"
\* the builder value after connect(self) has consumed it
MOVED == "moved"

\* the credentials the model calls the builder with
Users == { <<"u">> }
Passwords == { <<"p">> }

\* pub fn builder
Pop3Client_builder ==
    [host |-> None, port |-> None, username |-> None, password |-> None,
     type_state |-> CREDS_USERNAME]

\* pub fn username
Builder_username(self, user) ==
    [host |-> self.host, port |-> self.port, username |-> Some(user),
     password |-> self.password, type_state |-> CREDS_PASSWORD]

\* pub fn no_login
Builder_no_login(self) ==
    [host |-> self.host, port |-> self.port, username |-> None, password |-> None,
     type_state |-> CONNECT]

\* password with the field left as it was
Builder_password_unset(self, pass) ==
    [host |-> self.host, port |-> self.port, username |-> self.username,
     password |-> self.password, type_state |-> CONNECT]

\* pub fn password
Builder_password(self, pass) ==
    [host |-> self.host, port |-> self.port, username |-> self.username,
     password |-> Some(pass), type_state |-> CONNECT]

-----------------------------------------------------------------------------
(* lib.rs: connect. *)

\* the host of the Pop3Connection connect is called with
Hosts == { <<"h">> }

\* what lines 238-242 end in: the stream, or the error of the step that failed
Setups == {"ok", "config", "dns", "tls", "tcp"}

SetupError(setup) ==
    Error("ConnectionError",
          CASE setup = "config" -> <<"certificate store error">>
            [] setup = "dns" -> <<"invalid host: ", "invalid dns name">>
            [] setup = "tls" -> <<"could not set up client connection: ", "tls error">>
            [] OTHER -> <<"could not set up client connection: ", "io error">>)

\* the Result of the call thrown away instead of tested with ?
ProceedsOnErr(o) == o.st = "ret"

\* the ? operator lets the method go on: the call returned, and returned Ok
Proceeds(o) == o.st = "ret" /\ o.res.ok

\* outcome o of the method so far, followed by the exchange e when o lets the
\* method go on
Then(o, e) ==
    IF ~Proceeds(o) THEN o
    ELSE [Outcome(e, "ConnectionError", Ok(<<>>)) EXCEPT
            !.events = o.events \o @, !.replies = o.replies \o @]

\* connect fails before a stream exists
connect_setup(setup) ==
    [events |-> <<>>, st |-> "ret", res |-> Err(SetupError(setup)), rest |-> <<>>,
     replies |-> <<>>]

\* client.read_response()? at line 248: the greeting, which the server sends unasked
connect_greeting(g) ==
    LET r == client_read("single", g.reply, g.cuts, g.tail)
    IN Outcome([events |-> <<ReadEv("single", r)>>, st |-> r.st, res |-> r.res,
                rest |-> r.rest, replies |-> <<g.reply>>],
               "ConnectionError", Ok(<<>>))

\* if let (Some(user), Some(pass)) = (self.username, self.password)
HasCredentials(self) == self.username.some /\ self.password.some

\* lines 252-253
connect_user(self, o, x) ==
    Then(o, Exchange(USER \o <<SP>> \o self.username.val, "single", x, o.rest))

\* lines 254-255
connect_pass(self, o, x) ==
    Then(o, Exchange(PASS \o <<SP>> \o self.password.val, "single", x, o.rest))

\* connect ending early with no destructor run on the stream
connect_leak(o, w) == o

\* the local `client` goes out of scope when connect returns early or unwinds:
\* its destructor runs
connect_unwind(o, w) == [o EXCEPT !.events = @ \o drop(w).events]

-----------------------------------------------------------------------------
(* The session as a state machine: the calls a program can make, in the      *)
(* order the types allow.                                                     *)

Call(method, args, o) ==
    [method |-> method, args |-> args, events |-> o.events, st |-> o.st,
     res |-> o.res, replies |-> o.replies]

\* the call failed on a -ERR reply of the server
ServerErr(c) ==
    /\ c.st = "ret" /\ ~c.res.ok
    /\ c.replies # <<>>
    /\ StartsWith(c.replies[Len(c.replies)], ERR_RESPONSE_START)

QuitLine == QUIT \o CRLF

QuitWrites(events) ==
    Cardinality({i \in 1..Len(events) : events[i].op = "write" /\ events[i].line = QuitLine})

\* what becomes of the session value when a method ends with st
After(st) ==
    CASE st = "ret" -> "live"
      [] st = "panic" -> "unwinding"
      [] OTHER -> "stuck"

Init ==
    /\ builder = Pop3Client_builder
    /\ calls = <<>>
    /\ client = "none"
    /\ auth = "CONNECTING"
    /\ pending = <<>>
    /\ last = Call("builder", <<>>, [events |-> <<>>, st |-> "ret", res |-> Ok(<<>>),
                                  replies |-> <<>>])
    /\ prevErr = FALSE
    /\ ncmds = 0
    /\ quits = 0
    /\ rIn = <<>>
    /\ rOut = [kind |-> "none", cuts |-> {}, tail |-> "block",
               out |-> [st |-> "none", res |-> Err(<<>>), rest |-> <<>>]]
    /\ pIn = [rows |-> <<>>, eol |-> <<LF>>]
    /\ pOut = [parser |-> "none", res |-> Err(<<>>)]
    /\ mIn = [text |-> <<>>, lines |-> <<>>]
    /\ mOut = [method |-> "none", args |-> <<>>, cuts |-> {}, events |-> <<>>,
               st |-> "none", res |-> Err(<<>>), replies |-> <<>>]

Username ==
    /\ builder.type_state = CREDS_USERNAME
    /\ \E user \in Users : builder' = Builder_username(builder, user)
    /\ calls' = Append(calls, "username")
    /\ UNCHANGED <<client, auth, pending, last, prevErr, ncmds, quits,
                   rIn, rOut, pIn, pOut, mIn, mOut>>

NoLogin ==
    /\ builder.type_state = CREDS_USERNAME
    /\ builder' = Builder_no_login(builder)
    /\ calls' = Append(calls, "no_login")
    /\ UNCHANGED <<client, auth, pending, last, prevErr, ncmds, quits,
                   rIn, rOut, pIn, pOut, mIn, mOut>>

Password ==
    /\ builder.type_state = CREDS_PASSWORD
    /\ \E pass \in Passwords : builder' = Builder_password(builder, pass)
    /\ calls' = Append(calls, "password")
    /\ UNCHANGED <<client, auth, pending, last, prevErr, ncmds, quits,
                   rIn, rOut, pIn, pOut, mIn, mOut>>

\* connect returns or unwinds with outcome o, having reached protocol state a
ConnectEnds(o, a) ==
    /\ builder' = [builder EXCEPT !.type_state = MOVED]
    /\ calls' = Append(calls, "connect")
    /\ auth' = a
    /\ prevErr' = FALSE
    /\ pending' = o.rest
    /\ UNCHANGED <<ncmds, rIn, rOut, pIn, pOut, mIn, mOut>>
    /\ IF Proceeds(o)
       THEN /\ client' = "live"
            /\ last' = Call("connect", <<>>, o)
            /\ quits' = quits
       ELSE IF o.st \in {"block", "spin"}
       THEN /\ client' = "stuck"
            /\ last' = Call("connect", <<>>, o)
            /\ quits' = quits
       ELSE \E w \in WriteOutcomes :
              /\ client' = "dropped"
              /\ last' = Call("connect", <<>>, connect_unwind(o, w))
              /\ quits' = quits + QuitWrites(connect_unwind(o, w).events)

\* pub fn connect
Connect ==
    /\ builder.type_state = CONNECT
    /\ client = "none"
    /\ \E setup \in Setups :
         IF setup # "ok"
         THEN /\ builder' = [builder EXCEPT !.type_state = MOVED]
              /\ calls' = Append(calls, "connect")
              /\ last' = Call("connect", <<>>, connect_setup(setup))
              /\ UNCHANGED <<client, auth, pending, prevErr, ncmds, quits,
                             rIn, rOut, pIn, pOut, mIn, mOut>>
         ELSE \E g \in ReadInputs("single", <<>>) :
                LET o0 == connect_greeting(g)
                IN IF ~Proceeds(o0) THEN ConnectEnds(o0, "CONNECTING")
                   ELSE IF ~HasCredentials(builder) THEN ConnectEnds(o0, "AUTHORIZATION")
                   ELSE \E x1 \in Inputs("single", o0.rest) :
                          LET o1 == connect_user(builder, o0, x1)
                          IN IF ~Proceeds(o1) THEN ConnectEnds(o1, "AUTHORIZATION")
                             ELSE \E x2 \in Inputs("single", o1.rest) :
                                    LET o2 == connect_pass(builder, o1, x2)
                                    IN ConnectEnds(o2, IF Proceeds(o2) THEN "TRANSACTION"
                                                       ELSE "AUTHORIZATION")

\* a command method of the live session ends with outcome o
CommandEnds(method, args, o) ==
    /\ last' = Call(method, args, o)
    /\ pending' = o.rest
    /\ prevErr' = ServerErr(last)
    /\ ncmds' = ncmds + 1
    /\ client' = After(o.st)
    /\ quits' = quits + QuitWrites(o.events)
    /\ UNCHANGED <<builder, calls, auth, rIn, rOut, pIn, pOut, mIn, mOut>>

CanCall == client = "live" /\ ncmds < MaxCmds

Stat ==
    /\ CanCall
    /\ \E x \in Inputs("single", pending) : CommandEnds("stat", <<>>, stat(x, pending))

List ==
    /\ CanCall
    /\ \E x \in Inputs("multi", pending) : CommandEnds("list", <<>>, list(x, pending))

ListId ==
    /\ CanCall
    /\ \E id \in Ids, x \in Inputs("single", pending) :
         CommandEnds("list_id", <<id>>, list_id(id, x, pending))

ListLast ==
    /\ CanCall
    /\ \E n \in LastCounts, x \in Inputs("multi", pending) :
         CommandEnds("list_last", <<n>>, list_last(n, x, pending))

RetrieveAsString ==
    /\ CanCall
    /\ \E id \in Ids, x \in Inputs("multi", pending) :
         CommandEnds("retrieve_as_string", <<id>>, retrieve_as_string(id, x, pending))

RetrieveLastAsString ==
    /\ CanCall
    /\ \E x1 \in Inputs("multi", pending) :
         LET l == retrieve_last_list(x1, pending)
         IN IF Proceeds(l) /\ l.res.val.messages # <<>>
            THEN \E x2 \in Inputs("multi", l.rest) :
                   CommandEnds("retrieve_last_as_string", <<>>,
                               retrieve_last_as_string(l, x2))
            ELSE CommandEnds("retrieve_last_as_string", <<>>,
                             retrieve_last_as_string(l, x1))

Reset ==
    /\ CanCall
    /\ \E x \in Inputs("single", pending) : CommandEnds("reset", <<>>, reset(x, pending))

Delete ==
    /\ CanCall
    /\ \E id \in Ids, x \in Inputs("single", pending) :
         CommandEnds("delete", <<id>>, delete(id, x, pending))

Noop ==
    /\ CanCall
    /\ \E x \in Inputs("single", pending) : CommandEnds("noop", <<>>, noop(x, pending))

Uidl ==
    /\ CanCall
    /\ \E x \in Inputs("multi", pending) : CommandEnds("uidl", <<>>, uidl(x, pending))

UidlWithId ==
    /\ CanCall
    /\ \E id \in Ids, x \in Inputs("single", pending) :
         CommandEnds("uidl_with_id", <<id>>, uidl_with_id(id, x, pending))

Top ==
    /\ CanCall
    /\ \E id \in Ids, n \in LineCounts, x \in Inputs("multi", pending) :
         CommandEnds("top", <<id, n>>, top(id, n, x, pending))

\* the program lets go of the session value, or a panic unwinds through its owner
Drop ==
    /\ client \in {"live", "unwinding"}
    /\ \E w \in WriteOutcomes :
         /\ last' = Call("drop", <<>>, drop(w))
         /\ quits' = quits + QuitWrites(drop(w).events)
    /\ client' = "dropped"
    /\ prevErr' = FALSE
    /\ UNCHANGED <<builder, calls, auth, pending, ncmds, rIn, rOut, pIn, pOut, mIn, mOut>>

Next ==
    \/ Username
    \/ NoLogin
    \/ Password
    \/ Connect
    \/ Stat
    \/ List
    \/ ListId
    \/ ListLast
    \/ RetrieveAsString
    \/ RetrieveLastAsString
    \/ Reset
    \/ Delete
    \/ Noop
    \/ Uidl
    \/ UidlWithId
    \/ Top
    \/ Drop

Spec == Init /\ [][Next]_vars

-----------------------------------------------------------------------------
(* The reader on its own: a byte source is drawn, then read_response or      *)
(* read_multi_response is applied to it, cut into read chunks in every way.   *)

Heads ==
    { OK_RESPONSE_START \o <<SP>>, ERR_RESPONSE_START \o <<SP>>, <<"h", "i">> }

Pieces ==
    { OK_RESPONSE_START, ERR_RESPONSE_START, <<SP>>, <<"a">>, CRLF, <<".">> }

Ends ==
    { <<LF>>, CRLF, PERIOD_SURROUNDED_BY_NEWLINE,
      PERIOD_SURROUNDED_BY_CARRIAGE_RETURN_AND_NEWLINE, <<>> }

\* the texts made of at most k pieces
RECURSIVE Texts(_)
Texts(k) ==
    IF k = 0 THEN {<<>>}
    ELSE LET shorter == Texts(k - 1)
         IN shorter \cup {t \o q : t \in shorter, q \in Pieces}

Sources == {h \o t \o e : h \in Heads, t \in Texts(MaxPieces), e \in Ends}

NotRead == [kind |-> "none", cuts |-> {}, tail |-> "block",
            out |-> [st |-> "none", res |-> Err(<<>>), rest |-> <<>>]]

InitReader ==
    /\ builder = Pop3Client_builder
    /\ calls = <<>>
    /\ client = "none"
    /\ auth = "CONNECTING"
    /\ pending = <<>>
    /\ last = Call("builder", <<>>, [events |-> <<>>, st |-> "ret", res |-> Ok(<<>>),
                                  replies |-> <<>>])
    /\ prevErr = FALSE
    /\ ncmds = 0
    /\ quits = 0
    /\ rIn \in Sources
    /\ rOut = NotRead
    /\ pIn = [rows |-> <<>>, eol |-> <<LF>>]
    /\ pOut = [parser |-> "none", res |-> Err(<<>>)]
    /\ mIn = [text |-> <<>>, lines |-> <<>>]
    /\ mOut = [method |-> "none", args |-> <<>>, cuts |-> {}, events |-> <<>>,
               st |-> "none", res |-> Err(<<>>), replies |-> <<>>]

ReadResponse ==
    /\ rOut.kind = "none"
    /\ \E cuts \in CutSets(Len(rIn)), tail \in Tails :
         rOut' = [kind |-> "single", cuts |-> cuts, tail |-> tail,
                  out |-> read_response(Chunks(rIn, cuts), tail)]
    /\ UNCHANGED <<rIn, builder, calls, client, auth, pending, last, prevErr, ncmds,
                 quits, pIn, pOut, mIn, mOut>>

ReadMultiResponse ==
    /\ rOut.kind = "none"
    /\ \E cuts \in CutSets(Len(rIn)), tail \in Tails :
         rOut' = [kind |-> "multi", cuts |-> cuts, tail |-> tail,
                  out |-> read_multi_response(Chunks(rIn, cuts), tail)]
    /\ UNCHANGED <<rIn, builder, calls, client, auth, pending, last, prevErr, ncmds,
                 quits, pIn, pOut, mIn, mOut>>

NextReader ==
    \/ ReadResponse
    \/ ReadMultiResponse

SpecReader == InitReader /\ [][NextReader]_vars

-----------------------------------------------------------------------------
(* The parsers of responses.rs on their own: a payload is drawn as rows of   *)
(* fields, written out as text, and a parser is applied to the text.         *)

\* the payloads of the parser harness hold at most MaxRows lines
MaxRows == 2

\* a field of a payload line: its text, and the i32 it is the decimal form
\* of, if it is one
Field(text, ok, val) == [text |-> text, ok |-> ok, val |-> val]

\* the fields drawn in the first place of a line
NumberFields ==
    { Field(<<"1">>, TRUE, 1),
      Field(<<"-", "7">>, TRUE, -7),
      Field(MAX_DIGITS, TRUE, I32_MAX),
      Field(<<"-">> \o MIN_DIGITS, TRUE, I32_MIN),
      Field(MIN_DIGITS, FALSE, 0),
      Field(<<"-", "2", "1", "4", "7", "4", "8", "3", "6", "4", "9">>, FALSE, 0),
      Field(<<"a">>, FALSE, 0),
      Field(<<>>, FALSE, 0) }

\* the fields drawn in the second place of a line
SecondFields ==
    { Field(<<"2">>, TRUE, 2),
      Field(<<"9", "9", "9", "9", "9", "9", "9", "9", "9", "9">>, FALSE, 0),
      Field(<<"a", ".", "b">>, FALSE, 0),
      Field(<<>>, FALSE, 0) }

\* the fields drawn alone on a line: a blank line, the period, a number
LoneFields ==
    { Field(<<>>, FALSE, 0), Field(<<".">>, FALSE, 0), Field(<<"1">>, TRUE, 1) }

\* a line of one, two or three fields
Rows ==
    { <<f>> : f \in LoneFields }
    \cup { <<f, g>> : f \in NumberFields, g \in SecondFields }
    \cup { <<Field(<<"1">>, TRUE, 1), Field(<<"2">>, TRUE, 2), Field(<<"3">>, TRUE, 3)>> }

\* the sequences of at most k rows
RECURSIVE RowsUpTo(_)
RowsUpTo(k) ==
    IF k = 0 THEN {<<>>}
    ELSE LET fewer == RowsUpTo(k - 1)
         IN fewer \cup {Append(rs, r) : rs \in fewer, r \in Rows}

\* the payloads: rows, and the line ending that separates them
Payloads == [rows : RowsUpTo(MaxRows), eol : {<<LF>>, CRLF}]

\* the fields of a row with one space between them
RECURSIVE RowText(_)
RowText(row) ==
    IF Len(row) = 1 THEN row[1].text
    ELSE row[1].text \o <<SP>> \o RowText(Tail(row))

\* the rows with the line ending between them
RECURSIVE RowsText(_, _)
RowsText(rows, eol) ==
    IF rows = <<>> THEN <<>>
    ELSE IF Len(rows) = 1 THEN RowText(rows[1])
    ELSE RowText(rows[1]) \o eol \o RowsText(Tail(rows), eol)

PayloadText(p) == RowsText(p.rows, p.eol)

NotParsed == [parser |-> "none", res |-> Err(<<>>)]

InitResponses ==
    /\ builder = Pop3Client_builder
    /\ calls = <<>>
    /\ client = "none"
    /\ auth = "CONNECTING"
    /\ pending = <<>>
    /\ last = Call("builder", <<>>, [events |-> <<>>, st |-> "ret", res |-> Ok(<<>>),
                                  replies |-> <<>>])
    /\ prevErr = FALSE
    /\ ncmds = 0
    /\ quits = 0
    /\ rIn = <<>>
    /\ rOut = NotRead
    /\ pIn \in Payloads
    /\ pOut = NotParsed
    /\ mIn = [text |-> <<>>, lines |-> <<>>]
    /\ mOut = [method |-> "none", args |-> <<>>, cuts |-> {}, events |-> <<>>,
               st |-> "none", res |-> Err(<<>>), replies |-> <<>>]

\* a parser of responses.rs returns res for the payload
Parsed(parser, res) ==
    /\ pOut = NotParsed
    /\ pOut' = [parser |-> parser, res |-> res]
    /\ UNCHANGED <<builder, calls, client, auth, pending, last, prevErr, ncmds, quits,
                   rIn, rOut, pIn, mIn, mOut>>

StatTryFrom ==
    /\ Len(pIn.rows) = 1
    /\ Parsed("StatResponse", StatResponse_try_from(PayloadText(pIn)))

ItemTryFrom ==
    /\ Len(pIn.rows) = 1
    /\ Parsed("ItemResponse", ItemResponse_try_from(PayloadText(pIn)))

UIDLItemTryFrom ==
    /\ Len(pIn.rows) = 1
    /\ Parsed("UIDLItem", UIDLItem_try_from(PayloadText(pIn)))

ListTryFrom == Parsed("ListResponse", ListResponse_try_from(PayloadText(pIn)))

UIDLTryFrom == Parsed("UIDLResponse", UIDLResponse_try_from(PayloadText(pIn)))

NextResponses ==
    \/ StatTryFrom
    \/ ItemTryFrom
    \/ UIDLItemTryFrom
    \/ ListTryFrom
    \/ UIDLTryFrom

SpecResponses == InitResponses /\ [][NextResponses]_vars

-----------------------------------------------------------------------------
(* The multi-line methods of Pop3Client on their own: a reply of the server  *)
(* is drawn as a status text and data lines, and a method is called on a     *)
(* fresh stream that gives this reply, or -ERR, or fails the write.          *)

\* the replies of the method harness hold at most MaxLines data lines
MaxLines == 2

\* the text after +OK on the first line: none, a word, two numbers
StatusTexts == { <<>>, <<"m">>, <<"1", SP, "9">> }

\* the data lines: two scan listings, and three lines of a message (one that
\* holds +OK, one that starts with a space, one with a byte-stuffed period)
DataLines ==
    { <<Field(<<"1">>, TRUE, 1), Field(<<"2">>, TRUE, 2)>>,
      <<Field(<<"3">>, TRUE, 3), Field(<<"4">>, TRUE, 4)>>,
      <<Field(<<"+", "O", "K">>, FALSE, 0)>>,
      <<Field(<<SP, "a">>, FALSE, 0)>>,
      <<Field(<<".", ".">>, FALSE, 0)>> }

\* the sequences of at most k data lines
RECURSIVE LinesUpTo(_)
LinesUpTo(k) ==
    IF k = 0 THEN {<<>>}
    ELSE LET fewer == LinesUpTo(k - 1)
         IN fewer \cup {Append(ls, l) : ls \in fewer, l \in DataLines}

MultiLineReplies == [text : StatusTexts, lines : LinesUpTo(MaxLines)]

\* the data lines on the wire, each ended by CR LF
RECURSIVE WireLines(_)
WireLines(lines) ==
    IF lines = <<>> THEN <<>>
    ELSE RowText(Head(lines)) \o CRLF \o WireLines(Tail(lines))

\* the reply on the wire: the status line, the data lines, the lone period
Wire(m) ==
    OK_RESPONSE_START \o (IF m.text = <<>> THEN <<>> ELSE <<SP>> \o m.text) \o CRLF
    \o WireLines(m.lines) \o <<".">> \o CRLF

\* the server's refusal, and its reply to the RETR of retrieve_last_as_string
ERR_REPLY == <<"-", "E", "R", "R", SP, "x", CR, LF>>
RETR_REPLY == <<"+", "O", "K", CR, LF, "h", "i", CR, LF, ".", CR, LF>>

\* the inputs of one exchange whose command the server answers with reply or
\* refuses, the answer cut into read chunks; or whose write call fails
MethodInputs(reply) ==
    UNION { { [w |-> "all", reply |-> rp, cuts |-> c, tail |-> "block"] :
                c \in SessionCuts(Len(rp)) } :
            rp \in {reply, ERR_REPLY} }
    \cup { [w |-> "fault", reply |-> <<>>, cuts |-> {}, tail |-> "block"] }

NotCalled ==
    [method |-> "none", args |-> <<>>, cuts |-> {}, events |-> <<>>, st |-> "none",
     res |-> Err(<<>>), replies |-> <<>>]

InitMethods ==
    /\ builder = Pop3Client_builder
    /\ calls = <<>>
    /\ client = "none"
    /\ auth = "CONNECTING"
    /\ pending = <<>>
    /\ last = Call("builder", <<>>, [events |-> <<>>, st |-> "ret", res |-> Ok(<<>>),
                                  replies |-> <<>>])
    /\ prevErr = FALSE
    /\ ncmds = 0
    /\ quits = 0
    /\ rIn = <<>>
    /\ rOut = NotRead
    /\ pIn = [rows |-> <<>>, eol |-> <<LF>>]
    /\ pOut = NotParsed
    /\ mIn \in MultiLineReplies
    /\ mOut = NotCalled

\* a method called with args, its first exchange on inputs x, ends with outcome o
Called(method, args, x, o) ==
    /\ mOut' = [method |-> method, args |-> args, cuts |-> x.cuts, events |-> o.events,
                st |-> o.st, res |-> o.res, replies |-> o.replies]
    /\ UNCHANGED <<builder, calls, client, auth, pending, last, prevErr, ncmds, quits,
                   rIn, rOut, pIn, pOut, mIn>>

ListOnReply ==
    /\ mOut = NotCalled
    /\ \E x \in MethodInputs(Wire(mIn)) : Called("list", <<>>, x, list(x, <<>>))

ListLastOnReply ==
    /\ mOut = NotCalled
    /\ \E n \in LastCounts, x \in MethodInputs(Wire(mIn)) :
         Called("list_last", <<n>>, x, list_last(n, x, <<>>))

RetrieveOnReply ==
    /\ mOut = NotCalled
    /\ \E id \in Ids, x \in MethodInputs(Wire(mIn)) :
         Called("retrieve_as_string", <<id>>, x, retrieve_as_string(id, x, <<>>))

TopOnReply ==
    /\ mOut = NotCalled
    /\ \E id \in Ids, n \in LineCounts, x \in MethodInputs(Wire(mIn)) :
         Called("top", <<id, n>>, x, top(id, n, x, <<>>))

RetrieveLastOnReply ==
    /\ mOut = NotCalled
    /\ \E x1 \in MethodInputs(Wire(mIn)) :
         LET l == retrieve_last_list(x1, <<>>)
         IN IF Proceeds(l) /\ l.res.val.messages # <<>>
            THEN \E x2 \in MethodInputs(RETR_REPLY) :
                   Called("retrieve_last_as_string", <<>>, x1,
                          retrieve_last_as_string(l, x2))
            ELSE Called("retrieve_last_as_string", <<>>, x1,
                        retrieve_last_as_string(l, x1))

NextMethods ==
    \/ ListOnReply
    \/ ListLastOnReply
    \/ RetrieveOnReply
    \/ TopOnReply
    \/ RetrieveLastOnReply

SpecMethods == InitMethods /\ [][NextMethods]_vars

-----------------------------------------------------------------------------
(* The claims. *)

\* the methods of Pop3Client that send a TRANSACTION command
TransactionMethods ==
    {"stat", "list", "list_id", "list_last", "retrieve_as_string",
     "retrieve_last_as_string", "reset", "delete", "noop", "uidl", "uidl_with_id", "top"}

IsWrite(ev) == ev.op = "write"
IsRead(ev) == ev.op = "read"

\* a write call that put the whole line on the stream
WroteWhole(ev) == IsWrite(ev) /\ ev.st = "ret" /\ ev.sent = ev.line

\* the words of a command line, its CR LF taken off
Words(line) == Split(SubSeq(line, 1, Len(line) - 2), SP)

\* the reply framing the command table of the specification gives a command line
TableFraming(line) ==
    LET w == Words(line)
    IN IF w[1] \in {LIST, UIDL} THEN (IF Len(w) = 1 THEN "multi" ELSE "single")
       ELSE IF w[1] \in {RETR, TOP} THEN "multi"
       ELSE "single"

\* C1: a TRANSACTION command is written to the server only on a session whose
\* USER and PASS were both answered with +OK; a session that is still in
\* AUTHORIZATION (no_login) or CONNECTING cannot issue one.
C1_TransactionOnlyAfterLogin ==
    (/\ last.method \in TransactionMethods
     /\ \E i \in 1..Len(last.events) : WroteWhole(last.events[i]))
    => auth = "TRANSACTION"

\* C2: when a command method returns, no byte of a reply is left unread in the
\* stream, however the reply was split into read chunks.
C2_ReplyFullyConsumed ==
    (auth = "TRANSACTION" /\ last.method \in TransactionMethods /\ last.st = "ret")
    => pending = <<>>

\* the inputs of an exchange whose reply arrives alone and cut as cuts say
Alone(reply, cuts) == [w |-> "all", reply |-> reply, cuts |-> cuts, tail |-> "block"]

\* the method of call c run on inputs x with pend in the stream
Run(c, x, pend) ==
    CASE c.method = "stat" -> stat(x, pend)
      [] c.method = "list" -> list(x, pend)
      [] c.method = "list_id" -> list_id(c.args[1], x, pend)
      [] c.method = "list_last" -> list_last(c.args[1], x, pend)
      [] c.method = "retrieve_as_string" -> retrieve_as_string(c.args[1], x, pend)
      [] c.method = "reset" -> reset(x, pend)
      [] c.method = "delete" -> delete(c.args[1], x, pend)
      [] c.method = "noop" -> noop(x, pend)
      [] c.method = "uidl" -> uidl(x, pend)
      [] c.method = "uidl_with_id" -> uidl_with_id(c.args[1], x, pend)
      [] OTHER -> top(c.args[1], c.args[2], x, pend)

\* the results call c can return on its own reply alone, over every way of
\* cutting that reply into chunks
OwnResults(c) ==
    LET runs == { Run(c, Alone(c.replies[1], cuts), <<>>) :
                    cuts \in SessionCuts(Len(c.replies[1])) }
    IN { o.res : o \in { r \in runs : r.st = "ret" } }

\* C3: after a command failed on a -ERR reply, the next command that is
\* written and returns has a result its own reply alone determines.
C3_ErrDoesNotPoison ==
    (/\ auth = "TRANSACTION"
     /\ prevErr
     /\ last.method \in TransactionMethods \ {"retrieve_last_as_string"}
     /\ last.st = "ret"
     /\ Len(last.events) = 2 /\ WroteWhole(last.events[1]))
    => last.res \in OwnResults(last)

\* the write at place i of the events is followed by one read of the framing
\* the command table gives its line
ReadFollows(events, i) ==
    /\ i < Len(events)
    /\ IsRead(events[i + 1])
    /\ events[i + 1].kind = TableFraming(events[i].line)

\* the read at place j of the events follows the write of its command
WritePrecedes(events, j) ==
    /\ j > 1
    /\ IsWrite(events[j - 1]) /\ events[j - 1].st = "ret"
    /\ events[j].kind = TableFraming(events[j - 1].line)

NumWrites(events) == Cardinality({i \in 1..Len(events) : IsWrite(events[i])})

\* C4 as claimed: every command written (USER, PASS, the TRANSACTION commands
\* and QUIT) is one write followed by one read of the table's framing, and
\* every read follows the write of its command.
C4_WriteThenReadIncludingQuit ==
    /\ \A i \in 1..Len(last.events) :
         (IsWrite(last.events[i]) /\ last.events[i].st = "ret")
         => ReadFollows(last.events, i)
    /\ \A j \in 1..Len(last.events) :
         (IsRead(last.events[j]) /\ ~(last.method = "connect" /\ j = 1))
         => WritePrecedes(last.events, j)
    /\ (last.method \in (TransactionMethods \ {"retrieve_last_as_string"}) \cup {"drop"})
       => NumWrites(last.events) = 1

\* C4 as amended: a command method writes one command line and, when the
\* write call succeeds, then performs one read of the table's framing (single
\* for USER, PASS, STAT, LIST id, UIDL id, DELE, RSET, NOOP; multi for LIST,
\* UIDL, RETR, TOP); every read follows the write of its command; QUIT, which
\* only the destructor writes, is followed by no read.
C4_WriteThenRead ==
    /\ \A i \in 1..Len(last.events) :
         (IsWrite(last.events[i]) /\ last.events[i].st = "ret")
         => IF last.events[i].line = QuitLine
            THEN i = Len(last.events) /\ last.method \in {"drop", "connect"}
            ELSE ReadFollows(last.events, i)
    /\ \A i \in 1..Len(last.events) :
         (IsWrite(last.events[i]) /\ last.events[i].st = "fault")
         => (i = Len(last.events) \/ last.events[i + 1].line = QuitLine)
    /\ \A j \in 1..Len(last.events) :
         (IsRead(last.events[j]) /\ ~(last.method = "connect" /\ j = 1))
         => WritePrecedes(last.events, j)
    /\ (last.method \in (TransactionMethods \ {"retrieve_last_as_string"}) \cup {"drop"})
       => NumWrites(last.events) = 1

\* C4's case: UIDL with an id was written whole and its single-line reply read
C4_Witness ==
    /\ last.method = "uidl_with_id"
    /\ Len(last.events) = 2
    /\ WroteWhole(last.events[1])
    /\ last.events[2].kind = "single" /\ last.events[2].st = "ret"

\* C5: the bytes a write call that returns Ok puts on the stream are the
\* command's wire form and CR LF, nothing missing, also when the stream takes
\* fewer bytes than offered.
C5_WholeLineOnStream ==
    \A i \in 1..Len(last.events) :
      (IsWrite(last.events[i]) /\ last.events[i].st = "ret")
      => last.events[i].sent = last.events[i].line

\* the lines connect offers for USER and PASS
UserLine == USER \o <<SP>> \o builder.username.val \o CRLF
PassLine == PASS \o <<SP>> \o builder.password.val \o CRLF

\* the read at place j returned Ok
ReadOk(events, j) ==
    j <= Len(events) /\ IsRead(events[j]) /\ events[j].st = "ret" /\ events[j].res.ok

\* the events of connect before the destructor's QUIT, if it ran
ConnectEvents ==
    SelectSeq(last.events, LAMBDA ev : ~(IsWrite(ev) /\ ev.line = QuitLine))

\* C6: with credentials connect reads the greeting, writes USER and reads its
\* reply, writes PASS and reads its reply, in that order; a -ERR to either
\* makes connect fail and return no session, and after a -ERR to USER no PASS
\* is written; without credentials connect writes neither USER nor PASS.
C6_ConnectLoginOrder ==
    (last.method = "connect" /\ last.events # <<>>) =>
    LET ev == ConnectEvents
    IN /\ IsRead(ev[1]) /\ ev[1].kind = "single"
       /\ ~HasCredentials(builder) => Len(ev) = 1
       /\ HasCredentials(builder) =>
            /\ Len(ev) <= 5
            /\ Len(ev) >= 2 => (ReadOk(ev, 1) /\ IsWrite(ev[2]) /\ ev[2].line = UserLine)
            /\ Len(ev) >= 3 => (ev[2].st = "ret" /\ IsRead(ev[3]) /\ ev[3].kind = "single")
            /\ Len(ev) >= 4 => (ReadOk(ev, 3) /\ IsWrite(ev[4]) /\ ev[4].line = PassLine)
            /\ Len(ev) >= 5 => (ev[4].st = "ret" /\ IsRead(ev[5]) /\ ev[5].kind = "single")
            /\ client = "live" => (Len(ev) = 5 /\ ReadOk(ev, 5))
       /\ (\E j \in 1..Len(ev) : IsRead(ev[j]) /\ ev[j].st = "ret" /\ ~ev[j].res.ok)
          => (client # "live" /\ ~last.res.ok)

\* C6's case: connect with credentials whose USER was answered -ERR
C6_Witness ==
    /\ last.method = "connect"
    /\ HasCredentials(builder)
    /\ Len(ConnectEvents) = 3
    /\ ConnectEvents[3].st = "ret" /\ ~ConnectEvents[3].res.ok
    /\ StartsWith(last.replies[2], ERR_RESPONSE_START)
    /\ client = "dropped"

\* C7: connect can be called only after no_login, or after username followed
\* by password; whenever it can be called, username is set exactly if
\* password is, and after no_login both are unset.
C7_BuilderOrder ==
    /\ builder.type_state = CONNECT =>
         /\ calls \in { <<"no_login">>, <<"username", "password">> }
         /\ builder.username.some <=> builder.password.some
         /\ calls = <<"no_login">> => (builder.username = None /\ builder.password = None)
    /\ builder.type_state = MOVED =>
         calls \in { <<"no_login", "connect">>, <<"username", "password", "connect">> }

\* C7's case: the builder is ready to connect after username and password
C7_Witness ==
    /\ builder.type_state = CONNECT
    /\ calls = <<"username", "password">>
    /\ builder.username.some /\ builder.password.some

\* C8: once the session value is destroyed, the stream was offered QUIT CR LF
\* in exactly one write call, and that was the last write on the stream,
\* whatever the write call did with it (its failure is thrown away and the
\* destructor returns); before that no QUIT is written. A session destroyed
\* inside connect is no exception.
C8_QuitOnDrop ==
    /\ client = "dropped" =>
         /\ quits = 1
         /\ last.events # <<>>
         /\ IsWrite(last.events[Len(last.events)])
         /\ last.events[Len(last.events)].line = QuitLine
         /\ last.method = "drop" => last.st = "ret"
    /\ client # "dropped" => quits = 0

\* C8's case: the session was destroyed inside connect after the server
\* refused the login, and the QUIT write failed
C8_Witness ==
    /\ client = "dropped"
    /\ last.method = "connect"
    /\ Len(last.events) >= 4
    /\ last.events[Len(last.events)].line = QuitLine
    /\ last.events[Len(last.events)].st = "fault"

\* the text of a single-line reply: the bytes between its head and its LF
ReplyText(head) == SubSeq(rIn, Len(head) + 1, Len(rIn) - 1)

\* rIn is head, then a text without LF, then LF
IsLine(head) ==
    /\ StartsWith(rIn, head)
    /\ Len(rIn) > Len(head)
    /\ rIn[Len(rIn)] = LF
    /\ \A i \in 1..Len(ReplyText(head)) : ReplyText(head)[i] # LF

\* C9: for "+OK ", a text and LF, read_response returns Ok of the text
\* trimmed: a +OK inside the text stays.
C9_OkTextKept ==
    (rOut.kind = "single" /\ IsLine(OK_RESPONSE_START \o <<SP>>))
    => /\ rOut.out.st = "ret"
       /\ rOut.out.res = Ok(Trim(ReplyText(OK_RESPONSE_START \o <<SP>>)))

\* C10: for "-ERR ", a text and LF, read_response returns Err of the text
\* with its CR LF removed and trimmed, the rest of the text unchanged.
C10_ErrTextKept ==
    (rOut.kind = "single" /\ IsLine(ERR_RESPONSE_START \o <<SP>>))
    => /\ rOut.out.st = "ret"
       /\ rOut.out.res =
            Err(Trim(Replace(ReplyText(ERR_RESPONSE_START \o <<SP>>) \o <<LF>>, CRLF, <<>>)))

\* the bytes of rIn the reader took before it returned
Consumed == SubSeq(rIn, 1, Len(rIn) - Len(rOut.out.rest))

EndsWith(s, e) == Len(s) >= Len(e) /\ SubSeq(s, Len(s) - Len(e) + 1, Len(s)) = e

\* s ends with the lone period line that terminates a multi-line reply
Terminated(s) ==
    \/ EndsWith(s, PERIOD_SURROUNDED_BY_CARRIAGE_RETURN_AND_NEWLINE)
    \/ EndsWith(s, PERIOD_SURROUNDED_BY_NEWLINE)

\* rIn is one +OK multi-line reply: it ends with a terminator and holds no
\* other lone period line
IsMultiOk ==
    /\ StartsWith(rIn, OK_RESPONSE_START)
    /\ Terminated(rIn)
    /\ \A n \in 1..(Len(rIn) - 1) : ~Terminated(SubSeq(rIn, 1, n))

\* C12: for a +OK reply that ends in CR LF . CR LF or LF . LF, cut into read
\* chunks in any way, read_multi_response returns once the whole reply is
\* read, and returns Ok of the reply without its +OK, trimmed (so it keeps
\* its lines and ends with the period of the terminator).
C12_MultiLineFramed ==
    (rOut.kind = "multi" /\ IsMultiOk) =>
      /\ rOut.out.st = "ret"
      /\ rOut.out.rest = <<>>
      /\ rOut.out.res = Ok(Trim(SubSeq(rIn, Len(OK_RESPONSE_START) + 1, Len(rIn))))

\* the rows of the payload that are neither blank nor the lone period
KeptRows == SelectSeq(pIn.rows, LAMBDA row : RowText(row) \notin {<<>>, <<".">>})

\* a row that is a list item, a row that is a UIDL item
WellFormedItem(row) == Len(row) = 2 /\ row[1].ok /\ row[2].ok
WellFormedUIDLItem(row) == Len(row) = 2 /\ row[1].ok

\* C14: the List and UIDL parsers drop exactly the lines that are empty or
\* the lone period once CR is stripped, and parse the others in order: when
\* all of those are well formed the k-th item is that of the k-th remaining
\* line, and there are as many items as remaining lines; one malformed
\* remaining line fails the whole parse.
C14_ListParsersFilter ==
    /\ pOut.parser = "ListResponse" =>
         IF \A k \in 1..Len(KeptRows) : WellFormedItem(KeptRows[k])
         THEN pOut.res = Ok([messages |->
                               [k \in 1..Len(KeptRows) |->
                                  [message_id |-> KeptRows[k][1].val,
                                   size |-> KeptRows[k][2].val]]])
         ELSE ~pOut.res.ok /\ pOut.res.val.kind = "ListError"
    /\ pOut.parser = "UIDLResponse" =>
         IF \A k \in 1..Len(KeptRows) : WellFormedUIDLItem(KeptRows[k])
         THEN pOut.res = Ok([messages |->
                               [k \in 1..Len(KeptRows) |->
                                  [message_id |-> KeptRows[k][1].val,
                                   unique_id |-> KeptRows[k][2].text]]])
         ELSE ~pOut.res.ok /\ pOut.res.val.kind = "UIDLError"

\* C14's case: the UIDL parser, given a line whose unique id holds a period
\* and then the lone period line, CR LF between them, returned the one item
C14_Witness ==
    /\ pOut.parser = "UIDLResponse"
    /\ pIn.eol = CRLF
    /\ Len(pIn.rows) = 2
    /\ pIn.rows[1][Len(pIn.rows[1])].text = <<"a", ".", "b">>
    /\ RowText(pIn.rows[2]) = <<".">>
    /\ pOut.res.ok
    /\ Len(pOut.res.val.messages) = 1

\* the row of a one-line payload
TheRow == pIn.rows[1]

\* C15: the Stat, List-item and UIDL-item parsers accept a text exactly when
\* one space splits it into two fields and the numeric fields (both for Stat
\* and List item, the first for UIDL item) are i32 numbers; the values are
\* those numbers, the unique id is the second field as it is; any other text
\* gives the error of the command.
C15_ItemParsersAccept ==
    Len(pIn.rows) = 1 =>
      /\ pOut.parser = "StatResponse" =>
           IF Len(TheRow) = 2 /\ TheRow[1].ok /\ TheRow[2].ok
           THEN pOut.res = Ok([number_of_message |-> TheRow[1].val,
                               total_size |-> TheRow[2].val])
           ELSE ~pOut.res.ok /\ pOut.res.val.kind = "StatError"
      /\ pOut.parser = "ItemResponse" =>
           IF Len(TheRow) = 2 /\ TheRow[1].ok /\ TheRow[2].ok
           THEN pOut.res = Ok([message_id |-> TheRow[1].val, size |-> TheRow[2].val])
           ELSE ~pOut.res.ok /\ pOut.res.val.kind = "ListError"
      /\ pOut.parser = "UIDLItem" =>
           IF Len(TheRow) = 2 /\ TheRow[1].ok
           THEN pOut.res = Ok([message_id |-> TheRow[1].val,
                               unique_id |-> TheRow[2].text])
           ELSE ~pOut.res.ok /\ pOut.res.val.kind = "UIDLError"

\* C15's case: the Stat parser refused a text whose first field is one above
\* i32::MAX
C15_Witness ==
    /\ pOut.parser = "StatResponse"
    /\ Len(pIn.rows) = 1 /\ Len(TheRow) = 2
    /\ TheRow[1].text = MIN_DIGITS
    /\ TheRow[2].ok
    /\ ~pOut.res.ok

\* the server gave the drawn reply to the method's first command, and the
\* reply arrived in one chunk
GaveReplyWhole ==
    /\ mOut.replies # <<>>
    /\ mOut.replies[1] = Wire(mIn)
    /\ mOut.cuts = {}

\* every data line of the drawn reply is a scan listing
AllItems == \A k \in 1..Len(mIn.lines) : WellFormedItem(mIn.lines[k])

\* the list item a scan listing stands for
ItemOf(row) == [message_id |-> row[1].val, size |-> row[2].val]

\* C13: for a LIST reply of the wire protocol (+OK, a space and a text, then
\* one "id size" line per message, then the lone period), list returns Ok
\* with one item per message line, in order, with that line's id and size.
C13_ListOfProtocolReply ==
    (mOut.method = "list" /\ GaveReplyWhole /\ mIn.text # <<>> /\ AllItems) =>
      /\ mOut.st = "ret"
      /\ mOut.res = Ok([messages |->
                          [k \in 1..Len(mIn.lines) |-> ItemOf(mIn.lines[k])]])

\* the message of the drawn reply as sent: its lines and the period of the
\* terminating line
Message == WireLines(mIn.lines) \o <<".">>

\* C16: retrieve_as_string(id) and top(id, n) return the id (and n) of the
\* request and a body that holds the server's message as sent, every
\* character of it, up to and with the period of the terminating line.
C16_BodyVerbatim ==
    (mOut.method \in {"retrieve_as_string", "top"} /\ GaveReplyWhole) =>
      /\ mOut.st = "ret"
      /\ mOut.res.ok
      /\ mOut.res.val.message_id = mOut.args[1]
      /\ mOut.method = "top" => mOut.res.val.number_of_lines = mOut.args[2]
      /\ EndsWith(mOut.res.val.data, Message)

\* what the LIST step of retrieve_last_as_string returned: the list, if its
\* write succeeded and its read returned a reply that parsed
Listed ==
    IF /\ Len(mOut.events) >= 2
       /\ mOut.events[2].st = "ret"
       /\ mOut.events[2].res.ok
    THEN ListResponse_try_from(mOut.events[2].res.val)
    ELSE Err(<<>>)

HasLast == Listed.ok /\ Listed.val.messages # <<>>

\* the RETR line for the last item of the list
RetrLastLine ==
    RETR \o <<SP>> \o fmt_i32(Listed.val.messages[Len(Listed.val.messages)].message_id)
    \o CRLF

\* C17: retrieve_last_as_string first writes LIST and reads its reply; when
\* that gave a list with a last item it then writes RETR with that item's id,
\* and on a +OK reply returns the body with message_id = -1; when the list is
\* empty or LIST failed it writes no RETR and returns a RetrieveError.
C17_RetrieveLast ==
    mOut.method = "retrieve_last_as_string" =>
      /\ IsWrite(mOut.events[1]) /\ mOut.events[1].line = LIST \o CRLF
      /\ \A i \in 2..Len(mOut.events) :
           IsWrite(mOut.events[i]) => (i = 3 /\ HasLast)
      /\ HasLast =>
           /\ Len(mOut.events) >= 3
           /\ IsWrite(mOut.events[3])
           /\ mOut.events[3].line = RetrLastLine
      /\ (HasLast /\ Len(mOut.events) = 4 /\ ReadOk(mOut.events, 4)) =>
           /\ mOut.st = "ret"
           /\ mOut.res = Ok([message_id |-> -1, data |-> mOut.events[4].res.val])
      /\ (~HasLast /\ mOut.st = "ret") =>
           /\ ~mOut.res.ok
           /\ mOut.res.val.kind = "RetrieveError"

\* C17's case: LIST gave the items 1 and 3, RETR 3 was written and answered
\* +OK, and the body came back with message_id = -1
C17_Witness ==
    /\ mOut.method = "retrieve_last_as_string"
    /\ mIn.text = <<>>
    /\ Len(mIn.lines) = 2
    /\ RowText(mIn.lines[1]) = <<"1", SP, "2">>
    /\ RowText(mIn.lines[2]) = <<"3", SP, "4">>
    /\ Len(mOut.events) = 4
    /\ mOut.events[3].line = RETR \o <<SP, "3">> \o CRLF
    /\ mOut.res.ok
    /\ mOut.res.val.message_id = -1

Min(a, b) == IF a <= b THEN a ELSE b

\* the number of items list_last(n) is to return of a list of count items
LastCount(n, count) == IF n <= 0 THEN 0 ELSE Min(n, count)

\* C20: list_last(n) performs one LIST and returns the last min(n, count)
\* items of the server's list in the server's order; for n <= 0, no items.
C20_ListLastCount ==
    (mOut.method = "list_last" /\ GaveReplyWhole /\ mIn.text = <<>> /\ AllItems) =>
      LET count == Len(mIn.lines)
          k == LastCount(mOut.args[1], count)
      IN /\ mOut.st = "ret"
         /\ NumWrites(mOut.events) = 1
         /\ mOut.res = Ok([messages |->
                             [i \in 1..k |-> ItemOf(mIn.lines[count - k + i])]])

\* the message the specification gives a refused greeting, for the host of
\* the Pop3Connection
NotReady(host) == <<"POP3 server for ">> \o host \o <<" is *not* ready">>

\* connect read a greeting that the server began with -ERR, or the read of
\* the greeting failed
GreetingRefused ==
    /\ last.method = "connect"
    /\ last.events # <<>>
    /\ IsRead(last.events[1])
    /\ \/ StartsWith(last.replies[1], ERR_RESPONSE_START)
       \/ last.events[1].st = "panic"

\* C18: when the greeting is a -ERR reply or its read fails, connect returns
\* a ConnectionError with the message "POP3 server for <host> is *not*
\* ready" and no session.
C18_GreetingNotReady ==
    GreetingRefused =>
      /\ last.st = "ret"
      /\ client # "live"
      /\ ~last.res.ok
      /\ last.res.val.kind = "ConnectionError"
      /\ \E host \in Hosts : last.res.val.message = NotReady(host)

\* the error type of each method
ErrorKind(method) ==
    CASE method = "connect" -> "ConnectionError"
      [] method = "stat" -> "StatError"
      [] method \in {"list", "list_id", "list_last"} -> "ListError"
      [] method \in {"retrieve_as_string", "retrieve_last_as_string"} -> "RetrieveError"
      [] method = "reset" -> "ResetError"
      [] method = "delete" -> "DeleteError"
      [] method = "noop" -> "NoopError"
      [] method \in {"uidl", "uidl_with_id"} -> "UIDLError"
      [] OTHER -> "TopError"

\* the write call at place i of the last call's events failed, on a command
\* other than the destructor's QUIT
CommandWriteFault(i) ==
    /\ IsWrite(last.events[i])
    /\ last.events[i].st = "fault"
    /\ last.events[i].line # QuitLine

\* C19 as claimed: an I/O fault while writing a command line makes the
\* command method fail with a ConnectionError.
C19_WriteFaultConnectionError ==
    \A i \in 1..Len(last.events) :
      (last.method \in TransactionMethods /\ CommandWriteFault(i)) =>
        /\ last.st = "ret"
        /\ ~last.res.ok
        /\ last.res.val.kind = "ConnectionError"

\* C19 as amended: an I/O fault while writing a command line makes the
\* method fail at once (nothing is read or written after it but the QUIT of
\* a session destroyed inside connect) with the error type of the method
\* (ConnectionError inside connect, StatError for stat, and so on), whose
\* message is the text of the I/O error.
C19_WriteFaultFails ==
    \A i \in 1..Len(last.events) :
      (last.method \in TransactionMethods \cup {"connect"} /\ CommandWriteFault(i)) =>
        /\ last.st = "ret"
        /\ ~last.res.ok
        /\ last.res.val = Error(ErrorKind(last.method), IO_ERROR)
        /\ \A j \in (i + 1)..Len(last.events) :
             IsWrite(last.events[j]) /\ last.events[j].line = QuitLine

\* C19's case: the write of TOP failed and top returned a TopError
C19_Witness ==
    /\ last.method = "top"
    /\ Len(last.events) = 1
    /\ CommandWriteFault(1)
    /\ ~last.res.ok
    /\ last.res.val.kind = "TopError"

\* C21: for "-ERR ", a text and LF, cut into read chunks in any way (here:
\* any way whose first chunk holds the 5 bytes of "-ERR " at least),
\* read_multi_response returns, without a period terminator, Err of the whole
\* text with its CR LF removed and trimmed, and leaves no byte of the line.
C21_MultiLineErrWhole ==
    (/\ rOut.kind = "multi"
     /\ IsLine(ERR_RESPONSE_START \o <<SP>>)
     /\ \A c \in rOut.cuts : c >= Len(ERR_RESPONSE_START) + 1) =>
      /\ rOut.out.st = "ret"
      /\ rOut.out.rest = <<>>
      /\ rOut.out.res =
           Err(Trim(Replace(ReplyText(ERR_RESPONSE_START \o <<SP>>) \o <<LF>>, CRLF, <<>>)))

\* the reader of rOut asked the byte source for more than the chunks of rIn
RanOut ==
    /\ rOut.kind # "none"
    /\ client_read(rOut.kind, rIn, rOut.cuts, "block").st = "block"

\* C22: when a read of the byte source fails while a reply is framed, the
\* reader returns an Err; it does not panic.
C22_ReadErrorSurfaced ==
    (RanOut /\ rOut.tail = "fault") =>
      /\ rOut.out.st = "ret"
      /\ ~rOut.out.res.ok

\* C23: whatever the read chunks, also when the buffer holds 3 or 4 bytes
\* after one of them, read_all evaluates its loop test without a slice out of
\* range or a subtraction below zero: read_multi_response does not panic
\* while the reads of the byte source succeed.
C23_FramingInRange ==
    (rOut.kind = "multi" /\ rOut.tail # "fault") => rOut.out.st # "panic"

\* C24: when the byte source is at its end before a reply is framed (its
\* reads return zero bytes), read_response and read_multi_response return;
\* they do not read for ever.
C24_ReadersTerminate ==
    (RanOut /\ rOut.tail = "eof") => rOut.out.st = "ret"

====
